---- MODULE Spec2Model ----
(***************************************************************************)
(* A model of the news-reel automation drivers (index_multi.js and the     *)
(* uploading driver): the content fetcher getNews with its model fallback, *)
(* the illustration fetcher fetchImage, the per-segment loop generateTTS,  *)
(* the per-language assembly of main with mergeVideos, the directory read  *)
(* of the upload step, and cleanGeminiJSON, generateReel's output duration *)
(* and fetchTTS on their own.                                              *)
(*                                                                         *)
(* Strings are sequences of one-character strings.  A few characters are   *)
(* abstract letters standing for a whole JSON member of the digest:        *)
(*   "I0" "I1" "I2"  the member "India": [...] with 0, 1, 2 items,         *)
(*   "Ix"            the member "India": "text" (not an array),            *)
(*   "W0" "W1" "W2"  the member "World": [...] with 0, 1, 2 items,         *)
(*   "T"             the members title / tags / hashtags,                  *)
(*   "null"          the JSON literal null,                                *)
(*   "x"             any character that is not JSON,                       *)
(*   "youtube" "YouTube" "flickr" "www" "com"  words of a data attribute,  *)
(*   "u1" "u2" "pid" words of an image address,                            *)
(*   "bq"            the backquote character of a Markdown fence.          *)
(***************************************************************************)
EXTENDS Integers, Sequences, FiniteSets, TLC

VARIABLES
  \* ---- getNews
  variant,        \* "multi" (index_multi.js) or "upload" (the uploading driver)
  apiKey,         \* process.env.GEMINI_API_KEY is set
  newsPc,         \* "start" | "loop" | "returned"
  attempt,        \* the loop variable of getNews
  contacted,      \* the model identifiers passed to generateContent, in order
  attemptLog,     \* what each attempt ended with
  lastError,      \* getNews' lastError
  newsResult,     \* what getNews returned
  \* ---- fetchImage
  imgPc,          \* "start" | "scanned" | "done"
  page,           \* the search response: "error" or the li.ld entries
  firstValidImage,\* 0 (null) or the index of the selected entry
  downloads,      \* the entries whose image was requested, in order
  destFile,       \* the file at savePath: "absent" or what was written
  \* ---- main and generateTTS
  mainPc,         \* where main is: "flatten" | "loop" | "assemble" | "assembled" |
                  \* "draining" | "uploading" | "returned" | "caught" | "crashed"
  digest,         \* safeParsed, as getNews returned it
  news,           \* the flattened segments handed to generateTTS
  segIdx,         \* the segment generateTTS is at (i + 1)
  stage,          \* the await it is at: "tts" | "image" | "overlay" | "reel"
  dir,            \* the names in the output directory, in readdir order
  introExists,    \* assests/REELS/Reel_1.mp4 exists
  outroExists,    \* assests/REELS/Reel_5.mp4 exists
  segLog,         \* per segment, how each of its stages ended
  writes,         \* every write to the output directory: segment and name
  failures,       \* the number of external operations that failed so far
  asmNext,        \* the language the forEach of main is at
  allVideos,      \* per language, the list handed to mergeVideos
  asm,            \* per language, the state of its assembly task
  running,        \* the operations of the item loop that were called and have not ended
  merge,          \* per language, what mergeVideos handed to the concatenation
  broken,         \* per language, the inputs its validation found without
                  \* audio (the local broken of mergeVideos), while that
                  \* call runs
  rejections,     \* what the runtime does with an unhandled rejection
  uploadList,     \* the names the upload step read from the directory
  exitCode,       \* the exit status of the process and what set it
  \* ---- getAllFinalVideosByDate
  folderExists,   \* the folder of the date exists
  tokenFile,      \* token.json exists
  logoExists,     \* logo.png exists
  upTask,         \* per listed video, where its upload task is
  authFlows,      \* the interactive authorizations started
  upResult,       \* what getAllFinalVideosByDate returned
  \* ---- cleanGeminiJSON
  cleanPc,        \* "start" | "done"
  jsonText,       \* a JSON object text
  wrapper,        \* the Markdown fence put around it
  cleanedPlain,   \* cleanGeminiJSON of the text
  cleanedWrapped, \* cleanGeminiJSON of the text in its fence
  \* ---- generateReel
  reelPc,         \* "start" | "dimensions" | "done"
  audioDuration,  \* metadata.format.duration of the narration, in tenths of a second
  baseVideo,      \* the base video and its own duration
  requested,      \* the value of the -t output option
  probeFails,     \* ffprobe of the narration ends with an error
  dimsProbe,      \* ffprobe of the base video: "ok" | "fails" | "noStream"
  reelEnd,        \* "none" | "compositing" (ffmpeg was started) | "rejected"
  \* ---- fetchTTS
  ttsPc,          \* "start" | "done"
  ttsResponse,    \* what axios.get ends with
  ttsDest,        \* the file at folderPath
  ttsThrown       \* fetchTTS threw to its caller

newsVars == <<variant, apiKey, newsPc, attempt, contacted, attemptLog,
              lastError, newsResult>>
imageVars == <<imgPc, page, firstValidImage, downloads, destFile>>
runVars == <<mainPc, digest, news, segIdx, stage, dir, introExists, outroExists,
             segLog, writes, failures, asmNext, allVideos, asm, running>>
asmVars == <<merge, broken, rejections, uploadList, exitCode>>
cleanVars == <<cleanPc, jsonText, wrapper, cleanedPlain, cleanedWrapped>>
reelVars == <<reelPc, audioDuration, baseVideo, requested, probeFails,
              dimsProbe, reelEnd>>
ttsVars == <<ttsPc, ttsResponse, ttsDest, ttsThrown>>
upVars == <<folderExists, tokenFile, logoExists, upTask, authFlows, upResult>>
toolVars == <<cleanVars, reelVars, ttsVars, upVars>>
vars == <<newsVars, imageVars, runVars, asmVars, toolVars>>

\* ---------------------------------------------------------------- bounds
\* the longest search result page
MaxResults == 3
\* the most items a digest holds, both regions together
MaxItems == 2
\* the most external operations that fail in one run
MaxFailures == 2

\* ---------------------------------------------------------------- strings
Whitespace == {" ", "\n"}

RECURSIVE TrimLeft(_)
TrimLeft(s) ==
  IF s # <<>> /\ Head(s) \in Whitespace THEN TrimLeft(Tail(s)) ELSE s

RECURSIVE TrimRight(_)
TrimRight(s) ==
  IF s # <<>> /\ s[Len(s)] \in Whitespace
  THEN TrimRight(SubSeq(s, 1, Len(s) - 1)) ELSE s

\* String.prototype.trim
Trim(s) == TrimRight(TrimLeft(s))

\* String.prototype.toLowerCase on the letters the model uses
LowerChar(c) ==
  CASE c = "J" -> "j" [] c = "S" -> "s" [] c = "O" -> "o" [] c = "N" -> "n"
    [] c = "YouTube" -> "youtube"
    [] OTHER -> c

ToLower(s) == [i \in 1..Len(s) |-> LowerChar(s[i])]

StartsWith(s, p) == Len(s) >= Len(p) /\ SubSeq(s, 1, Len(p)) = p

EndsWith(s, p) ==
  Len(s) >= Len(p) /\ SubSeq(s, Len(s) - Len(p) + 1, Len(s)) = p

\* String.prototype.indexOf / lastIndexOf for one character, 0-based, -1 if absent
IndexOf(s, c) ==
  IF \E i \in 1..Len(s) : s[i] = c
  THEN (CHOOSE i \in 1..Len(s) : s[i] = c /\ \A j \in 1..(i - 1) : s[j] # c) - 1
  ELSE -1

LastIndexOfFirst(s, c) == IndexOf(s, c)
LastIndexOf(s, c) ==
  IF \E i \in 1..Len(s) : s[i] = c
  THEN (CHOOSE i \in 1..Len(s) :
          s[i] = c /\ \A j \in (i + 1)..Len(s) : s[j] # c) - 1
  ELSE -1

Min(a, b) == IF a <= b THEN a ELSE b
Max(a, b) == IF a >= b THEN a ELSE b

\* String.prototype.substring(a, b): 0-based, end exclusive, arguments clamped
\* to 0..length and swapped when a > b
Substring(s, a, b) ==
  LET ca == Max(0, Min(a, Len(s)))
      cb == Max(0, Min(b, Len(s)))
      lo == Min(ca, cb)
      hi == Max(ca, cb)
  IN SubSeq(s, lo + 1, hi)

Fence == <<"bq", "bq", "bq">>
FenceJson == <<"bq", "bq", "bq", "j", "s", "o", "n">>

\* cleaned.replace(/^bq bq bq json/i, "")
StripFenceJson(s) ==
  IF Len(s) >= 7 /\ ToLower(SubSeq(s, 1, 7)) = FenceJson
  THEN SubSeq(s, 8, Len(s)) ELSE s

\* cleaned.replace(/^bq bq bq/, "")
StripFenceStart(s) ==
  IF StartsWith(s, Fence) THEN SubSeq(s, 4, Len(s)) ELSE s

\* cleaned.replace(/bq bq bq$/, "")
StripFenceEndAlways(s) == SubSeq(s, 1, Max(0, Len(s) - 3))
StripFenceEnd(s) ==
  IF EndsWith(s, Fence) THEN SubSeq(s, 1, Len(s) - 3) ELSE s

cleanGeminiJSON(text) ==
  IF text = <<>> THEN <<"{", "}">>
  ELSE
    LET fenced == StripFenceEnd(StripFenceStart(StripFenceJson(Trim(text))))
        firstCurly == IndexOf(fenced, "{")
        lastCurly == LastIndexOf(fenced, "}")
        cut == IF firstCurly # -1 /\ lastCurly # -1
               THEN Substring(fenced, firstCurly, lastCurly + 1)
               ELSE fenced
    IN Trim(cut)

\* ---------------------------------------------------------------- JS values
\* A JavaScript value as the digest code looks at it: an array with its items,
\* undefined (a missing member) or a string.
Arr(items) == [t |-> "array", items |-> items]
Undefined == [t |-> "undefined", items |-> <<>>]
Str == [t |-> "string", items |-> <<>>]

\* Array.isArray
IsArray(v) == v.t = "array"

\* A news item is the sequence of its own keys, in insertion order, as
\* Object.entries lists them.  The prompt asks for the three language objects,
\* and for "india": true at the root of every India item.
Languages == <<"gujarati", "hindi", "english">>
LanguageSet == {Languages[i] : i \in 1..Len(Languages)}
IndiaItem == <<"english", "hindi", "gujarati", "india">>
WorldItem == <<"english", "hindi", "gujarati">>

\* ---------------------------------------------------------------- JSON.parse
IndiaMembers == {"I0", "I1", "I2", "Ix"}
WorldMembers == {"W0", "W1", "W2"}
Members == IndiaMembers \cup WorldMembers \cup {"T"}

MemberValue(c) ==
  CASE c \in {"I0", "W0"} -> Arr(<<>>)
    [] c = "I1" -> Arr(<<IndiaItem>>)
    [] c = "I2" -> Arr(<<IndiaItem, IndiaItem>>)
    [] c = "W1" -> Arr(<<WorldItem>>)
    [] c = "W2" -> Arr(<<WorldItem, WorldItem>>)
    [] OTHER -> Str

\* the value of the last member of the object text s among the members ms
\* (a repeated key keeps its last value); undefined when there is none
LastMember(s, ms) ==
  IF \E i \in 1..Len(s) : s[i] \in ms
  THEN MemberValue(s[CHOOSE i \in 1..Len(s) :
                       s[i] \in ms /\ \A j \in (i + 1)..Len(s) : s[j] \notin ms])
  ELSE Undefined

\* JSON.parse: ok is FALSE where it throws SyntaxError
JSONParse(str) ==
  LET s == Trim(str)
  IN IF s = <<"null">>
     THEN [ok |-> TRUE, isNull |-> TRUE, India |-> Undefined, World |-> Undefined]
     ELSE IF /\ Len(s) >= 2
             /\ s[1] = "{"
             /\ s[Len(s)] = "}"
             /\ \A i \in 2..(Len(s) - 1) : s[i] \in Members \cup Whitespace
     THEN [ok |-> TRUE, isNull |-> FALSE,
           India |-> LastMember(s, IndiaMembers),
           World |-> LastMember(s, WorldMembers)]
     ELSE [ok |-> FALSE, isNull |-> FALSE, India |-> Undefined, World |-> Undefined]

\* ---------------------------------------------------------------- getNews
models == <<"gemini-1.5-flash", "gemini-1.5-pro", "gemini-pro",
            "gemini-2.5-flash", "gemini-2.5-pro">>

Variants == {"multi", "upload"}

\* what generateContent can answer: an exception, or a text
GoodBody == <<"{", "T", "I1", "W1", "}">>
Texts ==
  { <<"bq", "bq", "bq", "j", "s", "o", "n", "\n">> \o GoodBody \o <<"\n", "bq", "bq", "bq">>,
    <<"x", " ">> \o GoodBody \o <<" ", "x">>,
    <<"{", "I2", "W0", "}">>,
    <<"{", "Ix", "W2", "}">>,
    <<"{", "I0", "W0", "}">>,
    <<"{", "Ix", "T", "}">>,
    <<"{", "I1", "W1">>,
    <<"x", "x">>,
    <<"null">>,
    <<>> }
Responses ==
  {[throws |-> TRUE, text |-> <<>>]} \cup {[throws |-> FALSE, text |-> t] : t \in Texts}

EmptyDigest == [India |-> Arr(<<>>), World |-> Arr(<<>>)]

\* "Always return arrays": Array.isArray(v) ? v : []
SafeArrayRaw(v) == v
SafeArray(v) == IF IsArray(v) THEN v ELSE Arr(<<>>)

\* v.length > 0 for an array or a string (a string member is never empty here)
NonEmpty(v) == IF IsArray(v) THEN Len(v.items) > 0 ELSE v.t = "string"

\* "Stop retrying if we got valid news"
GotValidNewsAlways(safeParsed) == TRUE
GotValidNews(safeParsed) ==
  NonEmpty(safeParsed.India) \/ NonEmpty(safeParsed.World)

\* the value of the return statement inside the loop: the digest itself in
\* index_multi.js, {safeParsed, youtubeSEO} in the uploading driver
ReturnValue(v, safeParsed) ==
  [root |-> IF v = "multi" THEN "India,World" ELSE "safeParsed,youtubeSEO",
   India |-> safeParsed.India, World |-> safeParsed.World]

\* the value of the return statements outside the loop
Fallback ==
  [root |-> "India,World", India |-> EmptyDigest.India, World |-> EmptyDigest.World]

NoResult == [root |-> "none", India |-> Undefined, World |-> Undefined]

\* the body of the try block on the answer r of the backend
TryModel(v, r) ==
  IF r.throws THEN [kind |-> "error", error |-> "backend", value |-> NoResult]
  ELSE
    LET text == Trim(r.text)
        parsed == JSONParse(cleanGeminiJSON(text))
        safeParsed == [India |-> SafeArray(parsed.India),
                       World |-> SafeArray(parsed.World)]
    IN IF ~parsed.ok
       THEN [kind |-> "error", error |-> "invalid JSON", value |-> NoResult]
       ELSE IF parsed.isNull \* parsed.India of null: TypeError, caught below
       THEN [kind |-> "error", error |-> "TypeError", value |-> NoResult]
       ELSE IF GotValidNews(safeParsed)
       THEN [kind |-> "return", error |-> "none",
             value |-> ReturnValue(v, safeParsed)]
       ELSE [kind |-> "error", error |-> "Empty news arrays", value |-> NoResult]

\* attempt++ of the for loop
NextAttemptSame(a) == a
NextAttempt(a) == a + 1

NewsInit(pc) ==
  /\ variant \in Variants
  /\ apiKey \in BOOLEAN
  /\ newsPc = pc
  /\ attempt = 0
  /\ contacted = <<>>
  /\ attemptLog = <<>>
  /\ lastError = "none"
  /\ newsResult = NoResult

\* the API key check, before the loop
NewsStart ==
  /\ newsPc = "start"
  /\ IF apiKey
     THEN newsPc' = "loop" /\ newsResult' = newsResult
     ELSE newsPc' = "returned" /\ newsResult' = Fallback
  /\ UNCHANGED <<variant, apiKey, attempt, contacted, attemptLog, lastError>>
  /\ UNCHANGED <<imageVars, runVars, asmVars, toolVars>>

\* one iteration of the for loop: the model is contacted, its answer is
\* cleaned and parsed; valid news returns, anything else is caught
NewsAttempt ==
  /\ newsPc = "loop"
  /\ attempt < Len(models)
  /\ \E r \in Responses :
       LET modelName == models[attempt + 1]
           out == TryModel(variant, r)
       IN /\ contacted' = Append(contacted, modelName)
          /\ attemptLog' = Append(attemptLog, r)
          /\ IF out.kind = "return"
             THEN /\ newsResult' = out.value
                  /\ newsPc' = "returned"
                  /\ UNCHANGED <<attempt, lastError>>
             ELSE /\ lastError' = out.error
                  /\ IF attempt = Len(models) - 1 \/ NextAttempt(attempt) >= Len(models)
                     THEN /\ newsPc' = "returned"
                          /\ newsResult' = Fallback
                          /\ attempt' = attempt
                     ELSE /\ attempt' = NextAttempt(attempt)
                          /\ UNCHANGED <<newsPc, newsResult>>
  /\ UNCHANGED <<variant, apiKey>>
  /\ UNCHANGED <<imageVars, runVars, asmVars, toolVars>>


\* ---------------------------------------------------------------- fetchImage
NoAttr == <<>>

\* the data attribute of an li.ld entry
DataAttrs == {NoAttr, <<"youtube">>, <<"www", "YouTube", "com">>, <<"flickr">>}

\* the data-src and src attributes of the entry's img element
ImgAttrs == {[dataSrc |-> NoAttr, src |-> NoAttr],
             [dataSrc |-> <<"u1", "?", "pid">>, src |-> NoAttr],
             [dataSrc |-> NoAttr, src |-> <<"u2">>]}

Entries == {[data |-> d, img |-> a] : d \in DataAttrs, a \in ImgAttrs}

RECURSIVE SeqsUpTo(_, _)
SeqsUpTo(S, n) ==
  IF n = 0 THEN {<<>>}
  ELSE LET shorter == SeqsUpTo(S, n - 1)
       IN shorter \cup {Append(q, e) : q \in shorter, e \in S}

\* the search response: the request fails, or it lists entries
Pages ==
  {[ok |-> FALSE, entries |-> <<>>]}
    \cup {[ok |-> TRUE, entries |-> es] : es \in SeqsUpTo(Entries, MaxResults)}

\* $(el).find("img").attr("data-src") || $(el).find("img").attr("src")
ImgSrcOrDefault(e) == IF e.img.dataSrc # NoAttr THEN e.img.dataSrc ELSE <<"u2">>
ImgSrc(e) == IF e.img.dataSrc # NoAttr THEN e.img.dataSrc ELSE e.img.src

\* dataAttr.toLowerCase().includes("youtube")
IsYoutubeCaseSensitive(dataAttr) ==
  \E i \in 1..Len(dataAttr) : dataAttr[i] = "youtube"
IsYoutube(dataAttr) ==
  \E i \in 1..Len(dataAttr) : ToLower(dataAttr)[i] = "youtube"

\* imgSrc.split("?")[0]
CleanUrl(imgSrc) ==
  LET q == IndexOf(imgSrc, "?")
  IN IF q = -1 THEN imgSrc ELSE SubSeq(imgSrc, 1, q)

NoImage == [index |-> 0, cleanUrl |-> <<>>]

\* the callback of $("li.ld").each on entry i, with firstValidImage = first
ScanEntry(es, i, first) ==
  IF first # NoImage THEN first
  ELSE IF ImgSrc(es[i]) = NoAttr THEN first
  ELSE IF IsYoutube(es[i].data) THEN first
  ELSE [index |-> i, cleanUrl |-> CleanUrl(ImgSrc(es[i]))]

\* $("li.ld").each(...): the entries in document order, from entry i on
RECURSIVE ScanEntries(_, _, _)
ScanEntries(es, i, first) ==
  IF i > Len(es) THEN first
  ELSE ScanEntries(es, i + 1, ScanEntry(es, i, first))

Absent == [exists |-> FALSE, content |-> <<"none">>]
OldFile == [exists |-> TRUE, content |-> <<"old">>]

ImageIdle(pc) ==
  /\ imgPc = pc
  /\ page = [ok |-> FALSE, entries |-> <<>>]
  /\ firstValidImage = NoImage
  /\ downloads = <<>>
  /\ destFile = Absent

ImageInit(pc) ==
  /\ imgPc = pc
  /\ page \in Pages
  /\ firstValidImage = NoImage
  /\ downloads = <<>>
  /\ destFile \in {Absent, OldFile}

\* the search request and the scan of its entries
ImageSearch ==
  /\ imgPc = "start"
  /\ IF ~page.ok
     THEN imgPc' = "done" /\ firstValidImage' = firstValidImage
     ELSE /\ firstValidImage' = ScanEntries(page.entries, 1, NoImage)
          /\ imgPc' = IF firstValidImage' # NoImage THEN "scanned" ELSE "done"
  /\ UNCHANGED <<page, downloads, destFile>>
  /\ UNCHANGED <<newsVars, runVars, asmVars, toolVars>>

\* the download of the selected image and its resize into savePath; a failure
\* of either is caught
ImageDownload ==
  /\ imgPc = "scanned"
  /\ downloads' = Append(downloads, firstValidImage.index)
  /\ \E ok \in BOOLEAN :
       destFile' = IF ok
                   THEN [exists |-> TRUE, content |-> firstValidImage.cleanUrl]
                   ELSE destFile
  /\ imgPc' = "done"
  /\ UNCHANGED <<page, firstValidImage>>
  /\ UNCHANGED <<newsVars, runVars, asmVars, toolVars>>


NewsIdle(pc) ==
  /\ variant = "multi"
  /\ apiKey = FALSE
  /\ newsPc = pc
  /\ attempt = 0
  /\ contacted = <<>>
  /\ attemptLog = <<>>
  /\ lastError = "none"
  /\ newsResult = NoResult

\* ---------------------------------------------------------------- file names
DigitChars == <<"0", "1", "2", "3", "4", "5", "6", "7", "8", "9">>
DigitSet == {DigitChars[d] : d \in 1..Len(DigitChars)}

\* the decimal text of n, as a template literal writes it
RECURSIVE Digits(_)
Digits(n) ==
  IF n < 10 THEN <<DigitChars[n + 1]>>
  ELSE Digits(n \div 10) \o <<DigitChars[(n % 10) + 1]>>

DigitValue(c) == (CHOOSE d \in 1..Len(DigitChars) : DigitChars[d] = c) - 1

\* parseInt(text, 10) of a text of digits
RECURSIVE ParseInt(_)
ParseInt(ds) ==
  IF ds = <<>> THEN 0
  ELSE 10 * ParseInt(SubSeq(ds, 1, Len(ds) - 1)) + DigitValue(ds[Len(ds)])

\* audio_{id+1}_{language}.mp3
AudioPath(item) == <<"audio_">> \o Digits(item.id + 1) \o <<"_", item.language, ".mp3">>

\* img{id+1}.png
ImgPath(item) == <<"img">> \o Digits(item.id + 1) \o <<".png">>

\* output_{id+1}_{language}.mp4
OutputPath(item) ==
  <<"output_">> \o Digits(item.id + 1) \o <<"_", item.language, ".mp4">>

\* reel_{language}{id+1}.mp4
ReelPathNoLanguage(item) == <<"reel_", "all">> \o Digits(item.id + 1) \o <<".mp4">>
ReelPath(item) == <<"reel_", item.language>> \o Digits(item.id + 1) \o <<".mp4">>

\* final_{lang}_video.mp4
FinalPathShared(lang) == <<"final_", "all", "_video.mp4">>
FinalPath(lang) == <<"final_", lang, "_video.mp4">>

IntroPath == <<"Reel_1.mp4">>
OutroPath == <<"Reel_5.mp4">>

InDir(d, name) == \E k \in 1..Len(d) : d[k] = name

\* news_{date}.txt, the digest text main writes into the folder of the date
NewsTextPath == <<"news_", "date", ".txt">>

\* the parts of the file names in the order of their strings, the order in
\* which fs.readdirSync lists names
TokenOrder ==
  <<".avi", ".mkv", ".mov", ".mp3", ".mp4", ".png", ".txt",
    "0", "1", "2", "3", "4", "5", "6", "7", "8", "9",
    "Reel_1.mp4", "Reel_5.mp4", "_", "_video.mp4", "all", "audio_", "date",
    "english", "final_", "gujarati", "hindi", "img", "india", "news_",
    "output_",
    "reel_">>

TokenRank(t) == CHOOSE k \in 1..Len(TokenOrder) : TokenOrder[k] = t

\* name a is listed before name b
NameBefore(a, b) ==
  \E k \in 1..Len(b) :
    /\ k - 1 <= Len(a)
    /\ \A j \in 1..(k - 1) : a[j] = b[j]
    /\ (k > Len(a) \/ TokenRank(a[k]) < TokenRank(b[k]))

\* a write of name into the directory d, as a later listing shows it: a new
\* name takes its place by name, an existing one keeps its place
WriteFile(d, name) ==
  IF InDir(d, name) THEN d
  ELSE LET k == Cardinality({j \in 1..Len(d) : NameBefore(d[j], name)})
       IN SubSeq(d, 1, k) \o <<name>> \o SubSeq(d, k + 1, Len(d))

\* ---------------------------------------------------------------- flatten
\* index < 4
IndiaCount == 4

\* Object.entries(item).map(([lang, content]) => ({id: index, ...content,
\* language: lang, india: index < 4}))
RECURSIVE ItemSegments(_, _, _)
ItemSegments(item, index, k) ==
  IF k > Len(item) THEN <<>>
  ELSE <<[id |-> index, language |-> item[k], india |-> index < IndiaCount]>>
         \o ItemSegments(item, index, k + 1)

\* allNews.flatMap((item, index) => ...), from the item at position pos on
RECURSIVE FlatMap(_, _)
FlatMap(allNews, pos) ==
  IF pos > Len(allNews) THEN <<>>
  ELSE ItemSegments(allNews[pos], pos - 1, 1) \o FlatMap(allNews, pos + 1)

\* [...(safeParsed?.India || []), ...(safeParsed?.World || [])]
AllNews(d) == d.India.items \o d.World.items

Flatten(d) == FlatMap(AllNews(d), 1)

RECURSIVE Repeat(_, _)
Repeat(x, n) == IF n = 0 THEN <<>> ELSE <<x>> \o Repeat(x, n - 1)

\* the digests getNews can hand to main: India items carry the "india" key the
\* prompt asks for; {India: [], World: []} is the fallback
Digests ==
  {[India |-> Arr(Repeat(IndiaItem, c[1])), World |-> Arr(Repeat(WorldItem, c[2]))] :
     c \in {c \in (0..MaxItems) \X (0..MaxItems) : c[1] + c[2] <= MaxItems}}

\* process.exitCode: unset, set to 1 by the catch of main, or 1 because the
\* runtime ended the process on an uncaught exception
NoExit == [code |-> 0, by |-> "none"]
ExitByCatch == [code |-> 1, by |-> "catch"]
ExitByRuntime == [code |-> 1, by |-> "runtime"]

\* ---------------------------------------------------------------- generateTTS
NoLog == [tts |-> "none", image |-> "none", imgExisted |-> FALSE,
          base |-> "none", overlay |-> "none", reel |-> "none"]

\* await fs.access(imgPath), with fs the callback API of "fs": called without
\* a callback it throws ERR_INVALID_ARG_TYPE whether or not the file exists,
\* so the await never resolves normally
FsAccessResolves(d, name) == FALSE

\* the search pages the image stage meets: the request fails, every entry is
\* flagged, or an entry is eligible
SegPages ==
  {[ok |-> FALSE, entries |-> <<>>],
   [ok |-> TRUE,
    entries |-> <<[data |-> <<"youtube">>,
                   img |-> [dataSrc |-> NoAttr, src |-> <<"u2">>]]>>],
   [ok |-> TRUE,
    entries |-> <<[data |-> <<"youtube">>,
                   img |-> [dataSrc |-> NoAttr, src |-> <<"u2">>]],
                  [data |-> <<"flickr">>,
                   img |-> [dataSrc |-> <<"u1", "?", "pid">>, src |-> NoAttr]]>>]}

\* fetchImage writes savePath: the page lists an eligible entry and its
\* download and resize succeed; it never throws
FetchImageWrites(pg, ok) ==
  pg.ok /\ ScanEntries(pg.entries, 1, NoImage) # NoImage /\ ok

\* item.india ? Reel_3 : Reel_4
BaseTrack(item) == IF item.india THEN "Reel_3" ELSE "Reel_4"

\* the catch of the fetchTTS call: continue
OnTTSErrorFallThrough == "fallthrough"
OnTTSError == "continue"

\* nothing handed to the concatenation yet
NoMerge == [inputs |-> <<>>, n |-> 0, v |-> 0, a |-> 0]

\* the upload step has not read the directory
NotRead == [read |-> FALSE, files |-> <<>>]

\* getAllFinalVideosByDate has not returned
NotSettled == [settled |-> FALSE, entries |-> <<>>]

\* the upload step before it is called, with or without a stored token
UploadIdle(token) ==
  /\ folderExists = TRUE
  /\ tokenFile = token
  /\ logoExists = FALSE
  /\ upTask = <<>>
  /\ authFlows = 0
  /\ upResult = NotSettled

\* the output directory of the date at the start of a run: new, or holding the
\* final reel an earlier run of the same date left
StaleDirs == {<<>>, <<FinalPath(Languages[2])>>}

\* failed is the number of failures the run starts with: 0, or MaxFailures
\* for a run in which no external operation fails
RunInit(pc, failed) ==
  /\ mainPc = pc
  /\ digest \in Digests
  /\ news = <<>>
  /\ segIdx = 0
  /\ stage = "none"
  /\ dir \in StaleDirs
  /\ introExists \in BOOLEAN
  /\ outroExists \in BOOLEAN
  /\ segLog = <<>>
  /\ writes = <<>>
  /\ failures = failed
  /\ asmNext = 1
  /\ allVideos = [l \in LanguageSet |-> <<>>]
  /\ asm = [l \in LanguageSet |-> "notStarted"]
  /\ running = {}
  /\ merge = [l \in LanguageSet |-> NoMerge]
  /\ broken = [l \in LanguageSet |-> <<>>]
  /\ rejections = "unknown"
  /\ uploadList = NotRead
  /\ exitCode = NoExit
  /\ folderExists = TRUE
  /\ tokenFile \in (IF dir = <<>> THEN {FALSE} ELSE BOOLEAN)
  /\ logoExists \in (IF dir = <<>> THEN {FALSE} ELSE BOOLEAN)
  /\ upTask = <<>>
  /\ authFlows = 0
  /\ upResult = NotSettled

RunIdle(pc) ==
  /\ mainPc = pc
  /\ digest = EmptyDigest
  /\ news = <<>>
  /\ segIdx = 0
  /\ stage = "none"
  /\ dir = <<>>
  /\ introExists = TRUE
  /\ outroExists = TRUE
  /\ segLog = <<>>
  /\ writes = <<>>
  /\ failures = 0
  /\ asmNext = 1
  /\ allVideos = [l \in LanguageSet |-> <<>>]
  /\ asm = [l \in LanguageSet |-> "notStarted"]
  /\ running = {}
  /\ merge = [l \in LanguageSet |-> NoMerge]
  /\ broken = [l \in LanguageSet |-> <<>>]
  /\ rejections = "unknown"
  /\ uploadList = NotRead
  /\ exitCode = NoExit
  /\ UploadIdle(FALSE)

\* what the try of main catches: what main itself throws or awaits, "main",
\* and not what a forEach callback throws, "callback"
CaughtByMainAll(origin) == TRUE
CaughtByMain(origin) == origin = "main"

\* the external operations of a segment, in the order of the loop body
Ops == <<"tts", "image", "overlay", "reel">>

\* every operation of the loop body is called with await
AwaitedExceptReel(op) == op # "reel"
Awaited(op) == TRUE

Call(k, op) == [seg |-> k, op |-> op]

\* the end of an iteration of the for loop of generateTTS
EndIteration ==
  IF segIdx = Len(news)
  THEN mainPc' = "assemble" /\ segIdx' = segIdx /\ stage' = "none"
  ELSE mainPc' = mainPc /\ segIdx' = segIdx + 1 /\ stage' = "tts"

\* where the loop body goes once operation op is behind it
AfterOp(op) ==
  IF op = "reel"
  THEN EndIteration
  ELSE /\ stage' = (CASE op = "tts" -> "image"
                      [] op = "image" -> "overlay"
                      [] OTHER -> "reel")
       /\ UNCHANGED <<mainPc, segIdx>>

\* main writes the digest text to the output directory, flattens the digest
\* and calls generateTTS, which returns at once when there is no segment; a
\* write that throws goes to the catch of main
FlattenNews ==
  /\ mainPc = "flatten"
  /\ \/ /\ dir' = WriteFile(dir, NewsTextPath)
        /\ writes' = Append(writes, [seg |-> 0, name |-> NewsTextPath])
        /\ news' = Flatten(digest)
        /\ segLog' = [k \in 1..Len(news') |-> NoLog]
        /\ IF news' = <<>>
           THEN mainPc' = "assemble" /\ segIdx' = 0 /\ stage' = "none"
           ELSE mainPc' = "loop" /\ segIdx' = 1 /\ stage' = "tts"
        /\ UNCHANGED <<failures, exitCode>>
     \/ /\ failures < MaxFailures
        /\ CaughtByMain("main")
        /\ failures' = failures + 1
        /\ mainPc' = "caught"
        /\ exitCode' = ExitByCatch
        /\ UNCHANGED <<news, segLog, segIdx, stage, dir, writes>>
  /\ UNCHANGED <<digest, introExists, outroExists, asmNext, allVideos, asm,
                 running>>
  /\ UNCHANGED <<merge, broken, rejections, uploadList>>
  /\ UNCHANGED <<newsVars, imageVars, toolVars>>

\* the loop body calls the next operation of the current segment: with await
\* the body is suspended until the operation ends, without it the body goes on
SegCall ==
  /\ mainPc = "loop"
  /\ Call(segIdx, stage) \notin running
  /\ running' = running \cup {Call(segIdx, stage)}
  /\ IF Awaited(stage)
     THEN UNCHANGED <<mainPc, segIdx, stage>>
     ELSE AfterOp(stage)
  /\ UNCHANGED <<digest, news, dir, introExists, outroExists, segLog, writes,
                 failures, asmNext, allVideos, asm>>
  /\ UNCHANGED <<newsVars, imageVars, asmVars, toolVars>>

\* the sleep and the fetchTTS call of a segment end
SegTTS ==
  /\ \E r \in running :
       /\ r.op = "tts"
       /\ running' = running \ {r}
       /\ LET k == r.seg
              item == news[k]
          IN \E ok \in BOOLEAN :
               /\ IF ok
                  THEN /\ dir' = WriteFile(dir, AudioPath(item))
                       /\ writes' = Append(writes, [seg |-> k, name |-> AudioPath(item)])
                       /\ segLog' = [segLog EXCEPT ![k].tts = "ok"]
                       /\ UNCHANGED failures
                  ELSE /\ failures < MaxFailures
                       /\ failures' = failures + 1
                       /\ segLog' = [segLog EXCEPT ![k].tts = "fail"]
                       /\ UNCHANGED <<dir, writes>>
               /\ IF ~Awaited("tts")
                  THEN UNCHANGED <<mainPc, segIdx, stage>>
                  ELSE IF ok \/ OnTTSError # "continue"
                       THEN AfterOp("tts")
                       ELSE EndIteration
  /\ UNCHANGED <<digest, news, introExists, outroExists, asmNext, allVideos, asm>>
  /\ UNCHANGED <<newsVars, imageVars, asmVars, toolVars>>

\* the illustration of a segment ends: the existence check, and fetchImage in
\* its catch branch
SegImage ==
  /\ \E r \in running :
       /\ r.op = "image"
       /\ running' = running \ {r}
       /\ LET k == r.seg
              item == news[k]
              existed == InDir(dir, ImgPath(item))
          IN IF FsAccessResolves(dir, ImgPath(item))
             THEN /\ segLog' = [segLog EXCEPT ![k].image = "cached",
                                               ![k].imgExisted = existed]
                  /\ UNCHANGED <<dir, writes, failures>>
             ELSE \E pg \in SegPages, ok \in BOOLEAN :
                    IF FetchImageWrites(pg, ok)
                    THEN /\ dir' = WriteFile(dir, ImgPath(item))
                         /\ writes' = Append(writes, [seg |-> k, name |-> ImgPath(item)])
                         /\ segLog' = [segLog EXCEPT ![k].image = "fetched",
                                                      ![k].imgExisted = existed]
                         /\ UNCHANGED failures
                    ELSE /\ failures < MaxFailures
                         /\ failures' = failures + 1
                         /\ segLog' = [segLog EXCEPT ![k].image = "nothing",
                                                      ![k].imgExisted = existed]
                         /\ UNCHANGED <<dir, writes>>
  /\ IF Awaited("image") THEN AfterOp("image") ELSE UNCHANGED <<mainPc, segIdx, stage>>
  /\ UNCHANGED <<digest, news, introExists, outroExists, asmNext, allVideos, asm>>
  /\ UNCHANGED <<newsVars, imageVars, asmVars, toolVars>>

\* overlayImage of a segment ends; it fails without its image input, and its
\* error is caught
SegOverlay ==
  /\ \E r \in running :
       /\ r.op = "overlay"
       /\ running' = running \ {r}
       /\ LET k == r.seg
              item == news[k]
              inputs == InDir(dir, ImgPath(item))
          IN \E ok \in BOOLEAN :
               IF ok
               THEN /\ inputs
                    /\ dir' = WriteFile(dir, OutputPath(item))
                    /\ writes' = Append(writes, [seg |-> k, name |-> OutputPath(item)])
                    /\ segLog' = [segLog EXCEPT ![k].overlay = "ok",
                                                 ![k].base = BaseTrack(item)]
                    /\ UNCHANGED failures
               ELSE /\ inputs => failures < MaxFailures
                    /\ failures' = IF inputs THEN failures + 1 ELSE failures
                    /\ segLog' = [segLog EXCEPT ![k].overlay = "fail",
                                                 ![k].base = BaseTrack(item)]
                    /\ UNCHANGED <<dir, writes>>
  /\ IF Awaited("overlay") THEN AfterOp("overlay") ELSE UNCHANGED <<mainPc, segIdx, stage>>
  /\ UNCHANGED <<digest, news, introExists, outroExists, asmNext, allVideos, asm>>
  /\ UNCHANGED <<newsVars, imageVars, asmVars, toolVars>>

\* generateReel of a segment ends; it fails without its audio, image or
\* intermediate video input, and its error is caught
SegReel ==
  /\ \E r \in running :
       /\ r.op = "reel"
       /\ running' = running \ {r}
       /\ LET k == r.seg
              item == news[k]
              inputs == /\ InDir(dir, AudioPath(item))
                        /\ InDir(dir, ImgPath(item))
                        /\ InDir(dir, OutputPath(item))
          IN \E ok \in BOOLEAN :
               IF ok
               THEN /\ inputs
                    /\ dir' = WriteFile(dir, ReelPath(item))
                    /\ writes' = Append(writes, [seg |-> k, name |-> ReelPath(item)])
                    /\ segLog' = [segLog EXCEPT ![k].reel = "ok"]
                    /\ UNCHANGED failures
               ELSE /\ inputs => failures < MaxFailures
                    /\ failures' = IF inputs THEN failures + 1 ELSE failures
                    /\ segLog' = [segLog EXCEPT ![k].reel = "fail"]
                    /\ UNCHANGED <<dir, writes>>
  /\ IF Awaited("reel") THEN AfterOp("reel") ELSE UNCHANGED <<mainPc, segIdx, stage>>
  /\ UNCHANGED <<digest, news, introExists, outroExists, asmNext, allVideos, asm>>
  /\ UNCHANGED <<newsVars, imageVars, asmVars, toolVars>>

\* ---------------------------------------------------------------- assembly
\* file.match(new RegExp(`^reel_${language}(\\d+)\\.mp4$`, "i")) !== null
ReelMatch(name, language) ==
  /\ Len(name) >= 4
  /\ LowerChar(name[1]) = "reel_"
  /\ LowerChar(name[2]) = LowerChar(language)
  /\ LowerChar(name[Len(name)]) = ".mp4"
  /\ \A k \in 3..(Len(name) - 1) : name[k] \in DigitSet

\* parseInt(match[1], 10)
ReelNumber(name) == ParseInt(SubSeq(name, 3, Len(name) - 1))

\* the comparator of the sort: numA - numB
CompareNone(a, b) == 0
Compare(a, b) == ReelNumber(a) - ReelNumber(b)

\* Array.prototype.sort (stable): f goes behind the sorted names that do not
\* compare greater
InsertSorted(sorted, f) ==
  LET k == Cardinality({j \in 1..Len(sorted) : Compare(sorted[j], f) <= 0})
  IN SubSeq(sorted, 1, k) \o <<f>> \o SubSeq(sorted, k + 1, Len(sorted))

RECURSIVE SortFiles(_, _)
SortFiles(fs, k) ==
  IF k = 0 THEN <<>> ELSE InsertSorted(SortFiles(fs, k - 1), fs[k])

getAllVideos(d, language) ==
  LET Matches(f) == ReelMatch(f, language)
      videoFiles == SelectSeq(d, Matches)
  IN SortFiles(videoFiles, Len(videoFiles))

\* fs.existsSync(p) for a name of the directory or an asset
ExistsSyncAlways(d, p) == TRUE
ExistsSync(d, p) ==
  IF p = IntroPath THEN introExists
  ELSE IF p = OutroPath THEN outroExists
  ELSE InDir(d, p)

\* [intro, ...videos, outro].filter((p) => fs.existsSync(p))
MergeList(d, language) ==
  LET Exists(p) == ExistsSync(d, p)
  IN SelectSeq(<<IntroPath>> \o getAllVideos(d, language) \o <<OutroPath>>, Exists)

\* the clip numbers of a directory left by earlier runs, and their order by name
ClipNums == {1, 2, 10}
ClipNumsByName == <<1, 10, 2>>
LanguagesByName == <<"english", "gujarati", "hindi">>

RECURSIVE ClipsOf(_, _, _)
ClipsOf(lang, nums, k) ==
  IF k > Len(ClipNumsByName) THEN <<>>
  ELSE (IF ClipNumsByName[k] \in nums
        THEN <<ReelPath([id |-> ClipNumsByName[k] - 1, language |-> lang])>>
        ELSE <<>>) \o ClipsOf(lang, nums, k + 1)

DirOf(f) ==
  ClipsOf(LanguagesByName[1], f[LanguagesByName[1]], 1)
    \o ClipsOf(LanguagesByName[2], f[LanguagesByName[2]], 1)
    \o ClipsOf(LanguagesByName[3], f[LanguagesByName[3]], 1)

\* the clips a language has in the directory: none, one, or two whose order
\* by name is not their order by number
ClipSets == {{}, {1}, {2, 10}}

AssembleDirs == {DirOf(f) : f \in [LanguageSet -> ClipSets]}

\* main of index_multi.js starts at the assembly, on what the directory holds
AssembleInit(pc) ==
  /\ mainPc = pc
  /\ digest = EmptyDigest
  /\ news = <<>>
  /\ segIdx = 0
  /\ stage = "none"
  /\ dir \in AssembleDirs
  /\ introExists \in BOOLEAN
  /\ outroExists \in BOOLEAN
  /\ segLog = <<>>
  /\ writes = <<>>
  /\ failures = 0
  /\ asmNext = 1
  /\ allVideos = [l \in LanguageSet |-> <<>>]
  /\ asm = [l \in LanguageSet |-> "notStarted"]
  /\ running = {}
  /\ merge = [l \in LanguageSet |-> NoMerge]
  /\ broken = [l \in LanguageSet |-> <<>>]
  /\ rejections = "unknown"
  /\ uploadList = NotRead
  /\ exitCode = NoExit
  /\ UploadIdle(FALSE)

\* Array.prototype.forEach ignores the promise an async callback returns
ForEachAwaitsCallback == TRUE
ForEachAwaits == FALSE

\* an assembly waiting for its stream probes or for its concatenation
InFlight == {"validating", "merging"}
\* an assembly that has ended
Settled == {"rejected", "failed", "done", "aborted"}

\* the callback of the forEach of main for one language, up to its first
\* await: the list is built, an empty list throws inside the callback, and
\* otherwise mergeVideos is called and waits for the stream probes
AssembleStart ==
  /\ mainPc = "assemble"
  /\ asmNext <= Len(Languages)
  /\ ForEachAwaits =>
       \A k \in 1..(asmNext - 1) : asm[Languages[k]] \in Settled
  /\ LET lang == Languages[asmNext]
         list == MergeList(dir, lang)
     IN /\ allVideos' = [allVideos EXCEPT ![lang] = list]
        /\ asm' = [asm EXCEPT ![lang] =
                     IF Len(list) = 0 THEN "rejected" ELSE "validating"]
  /\ asmNext' = asmNext + 1
  /\ mainPc' = IF asmNext = Len(Languages) THEN "assembled" ELSE mainPc
  /\ UNCHANGED <<digest, news, segIdx, stage, dir, introExists, outroExists,
                 segLog, writes, failures, running>>
  /\ UNCHANGED <<asmVars, newsVars, imageVars, toolVars>>

\* the process dies: what is in flight never completes
Crash(tasks) ==
  [l \in LanguageSet |-> IF tasks[l] \in InFlight THEN "aborted" ELSE tasks[l]]

\* the promise of a forEach callback is rejected and nothing handles it: the
\* runtime warns and goes on (the default up to Node 14) or raises it as an
\* uncaught exception that ends the process (the default since Node 15); pc is
\* where main is when the process goes on
UnhandledRejection(tasks, pc) ==
  IF CaughtByMain("callback")
  THEN /\ asm' = tasks
       /\ mainPc' = "caught"
       /\ exitCode' = ExitByCatch
       /\ rejections' = rejections
  ELSE \E mode \in (IF rejections = "unknown" THEN {"warn", "throw"} ELSE {rejections}) :
         /\ rejections' = mode
         /\ IF mode = "throw"
            THEN asm' = Crash(tasks) /\ mainPc' = "crashed" /\ exitCode' = ExitByRuntime
            ELSE asm' = tasks /\ mainPc' = pc /\ exitCode' = exitCode

\* the end of the synchronous block the forEach runs in: the rejections of the
\* callbacks that threw are reported once it is over
EndOfBlock(pc) ==
  IF \E l \in LanguageSet : asm[l] = "rejected"
  THEN UnhandledRejection(asm, pc)
  ELSE asm' = asm /\ mainPc' = pc /\ rejections' = rejections /\ exitCode' = exitCode

\* main of index_multi.js returns after the forEach
MainReturn ==
  /\ mainPc = "assembled"
  /\ EndOfBlock("returned")
  /\ UNCHANGED <<digest, news, segIdx, stage, dir, introExists, outroExists,
                 segLog, writes, failures, asmNext, allVideos, running>>
  /\ UNCHANGED <<merge, broken, uploadList>>
  /\ UNCHANGED <<newsVars, imageVars, toolVars>>

\* /\.(mp4|mkv|mov|avi)$/ on the last part of a name
VideoExtensions == {".mp4", "_video.mp4", ".mkv", ".mov", ".avi"}

\* file.startsWith("final_") && /\.(mp4|mkv|mov|avi)$/.test(file)
IsFinalVideo(name) ==
  /\ StartsWith(name, <<"final_">>)
  /\ name[Len(name)] \in VideoExtensions

\* getAllFinalVideosByDate up to its first await: readdirSync and the filter
FinalVideos(d) == SelectSeq(d, IsFinalVideo)

\* what readdirSync and the filter give, or nothing when the folder is missing
Listed(d) == IF folderExists THEN FinalVideos(d) ELSE <<>>

\* main of the uploading driver calls getAllFinalVideosByDate right after the
\* forEach, in the same synchronous block: a missing folder or an empty list
\* returns [], otherwise the map starts one task per video, each of which runs
\* up to its await of generateThumbnail; what is queued then runs before the
\* runtime looks at the rejections
UploadRead ==
  /\ mainPc = "assembled"
  /\ uploadList' = [read |-> TRUE, files |-> Listed(dir)]
  /\ upTask' = [k \in 1..Len(Listed(dir)) |-> "thumbnail"]
  /\ upResult' = IF Listed(dir) = <<>>
                 THEN [settled |-> TRUE, entries |-> <<>>]
                 ELSE upResult
  /\ mainPc' = "draining"
  /\ UNCHANGED <<digest, news, segIdx, stage, dir, introExists, outroExists,
                 segLog, writes, failures, asmNext, allVideos, asm, running>>
  /\ UNCHANGED <<merge, broken, rejections, exitCode>>
  /\ UNCHANGED <<folderExists, tokenFile, logoExists, authFlows>>
  /\ UNCHANGED <<newsVars, imageVars, cleanVars, reelVars, ttsVars>>

\* the try/catch of the map callback turns what a video's task throws into a
\* result with status "failed"
CatchPerVideoNone == FALSE
CatchPerVideo == TRUE

\* the task of video i ends with an error
TaskFails(i) ==
  /\ failures < MaxFailures
  /\ failures' = failures + 1
  /\ upTask' = [upTask EXCEPT ![i] = IF CatchPerVideo THEN "failed" ELSE "rejected"]

\* every task of tasks has ended
AllEnded(tasks) ==
  \A i \in 1..Len(tasks) : tasks[i] \in {"success", "failed", "rejected"}

\* the result Promise.allSettled gives for a task that ended
Entry(name, task) ==
  IF task = "rejected"
  THEN [path |-> name, outcome |-> "rejected", status |-> "none"]
  ELSE [path |-> name, outcome |-> "fulfilled", status |-> task]

\* what follows the step of a task in the same turn: when it was the last
\* task to end, Promise.allSettled resolves, getAllFinalVideosByDate returns
\* the results and main goes on to its end
UpSettle ==
  IF AllEnded(upTask')
  THEN /\ upResult' = [settled |-> TRUE,
                       entries |-> [k \in 1..Len(upTask') |->
                                      Entry(uploadList.files[k], upTask'[k])]]
       /\ mainPc' = IF mainPc = "draining" THEN mainPc ELSE "returned"
  ELSE UNCHANGED <<upResult, mainPc>>

\* the upload tasks wait for their operations while main awaits
\* getAllFinalVideosByDate
UploadsRun == mainPc = "uploading"

\* generateThumbnail awaits loadImage only when logo.png exists; without it
\* the thumbnail is made in the block that called it, and the task goes on
\* among what is queued when that block ends
ThumbnailEnds == IF logoExists THEN UploadsRun ELSE mainPc = "draining"

\* something queued has still to run before the runtime looks at the
\* rejections: a task whose thumbnail is made
Queued ==
  ~logoExists /\ \E i \in 1..Len(upTask) : upTask[i] = "thumbnail"

\* generateThumbnail of a video ends, and on success uploadToYoutube runs up
\* to its next await: authorize resolves at once with the stored token and
\* videos.insert is called, or without token.json authorize starts the
\* interactive flow and waits for the code
UpThumbnail ==
  /\ ThumbnailEnds
  /\ \E i \in 1..Len(upTask) :
       /\ upTask[i] = "thumbnail"
       /\ \E ok \in BOOLEAN :
            IF ~ok
            THEN TaskFails(i) /\ UNCHANGED authFlows
            ELSE /\ UNCHANGED failures
                 /\ IF tokenFile
                    THEN /\ upTask' = [upTask EXCEPT ![i] = "inserting"]
                         /\ UNCHANGED authFlows
                    ELSE /\ upTask' = [upTask EXCEPT ![i] = "waitingCode"]
                         /\ authFlows' = authFlows + 1
  /\ UpSettle
  /\ UNCHANGED <<digest, news, segIdx, stage, dir, introExists, outroExists,
                 segLog, writes, asmNext, allVideos, asm, running>>
  /\ UNCHANGED <<folderExists, tokenFile, logoExists>>
  /\ UNCHANGED <<newsVars, imageVars, asmVars, cleanVars, reelVars, ttsVars>>

\* the code of an interactive flow is entered: getToken fails and authorize
\* rejects, or the token is written to token.json and videos.insert is called
UpCode ==
  /\ UploadsRun
  /\ \E i \in 1..Len(upTask) :
       /\ upTask[i] = "waitingCode"
       /\ \E ok \in BOOLEAN :
            IF ok
            THEN /\ tokenFile' = TRUE
                 /\ upTask' = [upTask EXCEPT ![i] = "inserting"]
                 /\ UNCHANGED failures
            ELSE TaskFails(i) /\ UNCHANGED tokenFile
  /\ UpSettle
  /\ UNCHANGED <<digest, news, segIdx, stage, dir, introExists, outroExists,
                 segLog, writes, asmNext, allVideos, asm, running>>
  /\ UNCHANGED <<folderExists, logoExists, authFlows>>
  /\ UNCHANGED <<newsVars, imageVars, asmVars, cleanVars, reelVars, ttsVars>>

\* videos.insert of a video ends: the thumbnail written before is there and
\* thumbnails.set is called, or the upload failed
UpInsert ==
  /\ UploadsRun
  /\ \E i \in 1..Len(upTask) :
       /\ upTask[i] = "inserting"
       /\ \E ok \in BOOLEAN :
            IF ok
            THEN /\ upTask' = [upTask EXCEPT ![i] = "settingThumbnail"]
                 /\ UNCHANGED failures
            ELSE TaskFails(i)
  /\ UpSettle
  /\ UNCHANGED <<digest, news, segIdx, stage, dir, introExists, outroExists,
                 segLog, writes, asmNext, allVideos, asm, running>>
  /\ UNCHANGED <<folderExists, tokenFile, logoExists, authFlows>>
  /\ UNCHANGED <<newsVars, imageVars, asmVars, cleanVars, reelVars, ttsVars>>

\* thumbnails.set of a video ends
UpSetThumbnail ==
  /\ UploadsRun
  /\ \E i \in 1..Len(upTask) :
       /\ upTask[i] = "settingThumbnail"
       /\ \E ok \in BOOLEAN :
            IF ok
            THEN /\ upTask' = [upTask EXCEPT ![i] = "success"]
                 /\ UNCHANGED failures
            ELSE TaskFails(i)
  /\ UpSettle
  /\ UNCHANGED <<digest, news, segIdx, stage, dir, introExists, outroExists,
                 segLog, writes, asmNext, allVideos, asm, running>>
  /\ UNCHANGED <<folderExists, tokenFile, logoExists, authFlows>>
  /\ UNCHANGED <<newsVars, imageVars, asmVars, cleanVars, reelVars, ttsVars>>

\* nothing queued is left after the block of main that called
\* getAllFinalVideosByDate: the runtime reports the rejections of the forEach
\* callbacks that threw, and the process waits for its operations, or is over
\* when getAllFinalVideosByDate has returned
EndOfTick ==
  /\ mainPc = "draining"
  /\ ~Queued
  /\ EndOfBlock(IF upResult.settled THEN "returned" ELSE "uploading")
  /\ UNCHANGED <<digest, news, segIdx, stage, dir, introExists, outroExists,
                 segLog, writes, failures, asmNext, allVideos, running>>
  /\ UNCHANGED <<merge, broken, uploadList>>
  /\ UNCHANGED <<newsVars, imageVars, toolVars>>

\* the most final_ videos the folder of the date holds
MaxVideos == 2

\* the names a folder of the date may hold, in the order readdirSync gives
UploadNames ==
  <<FinalPath("english"), <<"final_", "gujarati", ".mkv">>,
    <<"final_", "hindi", ".txt">>, FinalPath("hindi"),
    ReelPath([id |-> 0, language |-> "hindi"])>>

RECURSIVE Pick(_, _, _)
Pick(names, chosen, k) ==
  IF k > Len(names) THEN <<>>
  ELSE (IF k \in chosen THEN <<names[k]>> ELSE <<>>) \o Pick(names, chosen, k + 1)

UploadDirs ==
  {d \in {Pick(UploadNames, c, 1) : c \in SUBSET (1..Len(UploadNames))} :
     Len(FinalVideos(d)) <= MaxVideos}

\* getAllFinalVideosByDate on a folder of the date, after a run whose
\* assemblies have ended
UploadInit(pc) ==
  /\ mainPc = pc
  /\ digest = EmptyDigest
  /\ news = <<>>
  /\ segIdx = 0
  /\ stage = "none"
  /\ dir \in UploadDirs
  /\ introExists = TRUE
  /\ outroExists = TRUE
  /\ segLog = <<>>
  /\ writes = <<>>
  /\ failures = 0
  /\ asmNext = Len(Languages) + 1
  /\ allVideos = [l \in LanguageSet |-> <<>>]
  /\ asm = [l \in LanguageSet |-> "done"]
  /\ running = {}
  /\ merge = [l \in LanguageSet |-> NoMerge]
  /\ broken = [l \in LanguageSet |-> <<>>]
  /\ rejections = "unknown"
  /\ uploadList = NotRead
  /\ exitCode = NoExit
  /\ folderExists \in BOOLEAN
  /\ tokenFile \in BOOLEAN
  /\ logoExists \in BOOLEAN
  /\ upTask = <<>>
  /\ authFlows = 0
  /\ upResult = NotSettled

\* the callbacks of the probes and of the concatenations run once the
\* synchronous block of main is over and while the process lives
TasksRunAnytime == mainPc \in {"assemble", "assembled", "returned", "uploading"}
TasksRun ==
  IF ForEachAwaits THEN mainPc \in {"assemble", "returned", "uploading"}
  ELSE mainPc \in {"returned", "uploading"}

\* the inputs validation may find without an audio stream: any of them, in
\* the order of the list
BrokenChoices(videoFiles) ==
  {Pick(videoFiles, c, 1) : c \in SUBSET (1..Len(videoFiles))}

\* videoFiles.forEach((file) => ff.input(file))
MergeInputsWithAudio(videoFiles, noAudio) ==
  SelectSeq(videoFiles, LAMBDA f : \A k \in 1..Len(noAudio) : noAudio[k] # f)
MergeInputs(videoFiles, noAudio) == videoFiles

\* the concat filter of mergeVideos
MergeRequest(videoFiles, noAudio) ==
  [inputs |-> MergeInputs(videoFiles, noAudio),
   n |-> Len(videoFiles), v |-> 1, a |-> 1]

\* validateVideos of one language ends: every probe answered (some inputs may
\* lack audio) and the concatenation is started, or a probe failed and
\* mergeVideos rejects
AssembleValidate ==
  /\ TasksRun
  /\ \E lang \in LanguageSet :
       /\ asm[lang] = "validating"
       /\ \/ \E noAudio \in BrokenChoices(allVideos[lang]) :
               /\ broken' = [broken EXCEPT ![lang] = noAudio]
               /\ merge' = [merge EXCEPT ![lang] =
                              MergeRequest(allVideos[lang], noAudio)]
               /\ asm' = [asm EXCEPT ![lang] = "merging"]
               /\ UNCHANGED <<mainPc, rejections, failures, exitCode>>
          \/ /\ failures < MaxFailures
             /\ failures' = failures + 1
             /\ UnhandledRejection([asm EXCEPT ![lang] = "failed"], mainPc)
             /\ UNCHANGED <<merge, broken>>
  /\ UNCHANGED <<digest, news, segIdx, stage, dir, introExists, outroExists,
                 segLog, writes, asmNext, allVideos, uploadList, running>>
  /\ UNCHANGED <<newsVars, imageVars, toolVars>>

\* the concatenation of one language ends: the final reel is written, or
\* ffmpeg reports an error and mergeVideos rejects
AssembleMerge ==
  /\ TasksRun
  /\ \E lang \in LanguageSet :
       /\ asm[lang] = "merging"
       /\ broken' = [broken EXCEPT ![lang] = <<>>]
       /\ \/ /\ dir' = WriteFile(dir, FinalPath(lang))
             /\ asm' = [asm EXCEPT ![lang] = "done"]
             /\ UNCHANGED <<mainPc, rejections, failures, exitCode>>
          \/ /\ failures < MaxFailures
             /\ failures' = failures + 1
             /\ UnhandledRejection([asm EXCEPT ![lang] = "failed"], mainPc)
             /\ UNCHANGED dir
  /\ UNCHANGED <<digest, news, segIdx, stage, introExists, outroExists,
                 segLog, writes, asmNext, allVideos, merge, uploadList, running>>
  /\ UNCHANGED <<newsVars, imageVars, toolVars>>

\* ---------------------------------------------------------------- cleanGeminiJSON on fenced text
\* the most characters between the braces of a JSON object text
MaxBody == 3

\* the characters between the braces: braces of nested objects, a backquote
\* or a line end inside a string, any other character
BodyChars == {"{", "}", "x", "bq", "\n"}

\* a JSON object text: an opening brace, a body and a closing brace, with
\* optional whitespace around
Padding == {<<>>, <<"\n">>}
JsonTexts ==
  {pre \o <<"{">> \o body \o <<"}">> \o post :
     pre \in Padding, post \in Padding, body \in SeqsUpTo(BodyChars, MaxBody)}

\* a Markdown fence: the opening line with or without the json tag, in either
\* case, with or without line ends inside and after
Wrappers ==
  [open : {Fence, FenceJson, Fence \o <<"J", "S", "O", "N">>},
   sep : Padding, tail : Padding]

Wrap(w, text) == w.open \o w.sep \o text \o w.sep \o Fence \o w.tail

CleanIdle(pc) ==
  /\ cleanPc = pc
  /\ jsonText = <<"{", "}">>
  /\ wrapper = [open |-> Fence, sep |-> <<>>, tail |-> <<>>]
  /\ cleanedPlain = <<>>
  /\ cleanedWrapped = <<>>

CleanInit(pc) ==
  /\ cleanPc = pc
  /\ jsonText \in JsonTexts
  /\ wrapper \in Wrappers
  /\ cleanedPlain = <<>>
  /\ cleanedWrapped = <<>>

\* the longest text of a backend answer
MaxText == 4

\* any text of a backend answer: braces, a backquote, whitespace, other characters
TextChars == {"{", "}", "x", " ", "bq"}
AnyTexts == SeqsUpTo(TextChars, MaxText) \ {<<>>}

AnyTextInit(pc) ==
  /\ cleanPc = pc
  /\ jsonText \in AnyTexts
  /\ wrapper = [open |-> Fence, sep |-> <<>>, tail |-> <<>>]
  /\ cleanedPlain = <<>>
  /\ cleanedWrapped = <<>>

\* cleanGeminiJSON applied to the text and to the text in its fence
CleanBoth ==
  /\ cleanPc = "start"
  /\ cleanedPlain' = cleanGeminiJSON(jsonText)
  /\ cleanedWrapped' = cleanGeminiJSON(Wrap(wrapper, jsonText))
  /\ cleanPc' = "done"
  /\ UNCHANGED <<jsonText, wrapper>>
  /\ UNCHANGED <<newsVars, imageVars, runVars, asmVars, reelVars, ttsVars, upVars>>

\* ---------------------------------------------------------------- generateReel: the output duration
\* the longest narration, in tenths of a second
MaxTenths == 30

\* metadata.format.duration: a number of seconds (kept in tenths) or undefined
NoDuration == [defined |-> FALSE, tenths |-> 0]
Durations ==
  {NoDuration} \cup {[defined |-> TRUE, tenths |-> t] : t \in 0..MaxTenths}

\* the base videos generateReel runs over, with their own durations
BaseVideos == [name : {"Reel_3", "Reel_4"}, tenths : {50, 170, 300}]

\* metadata.format.duration || 10, in tenths
DurationOrDefault(d) == IF d.defined /\ d.tenths # 0 THEN d.tenths ELSE 100

\* Math.round of a non-negative number of tenths: halves go up
MathFloor(tenths) == tenths \div 10
MathRound(tenths) == (tenths + 5) \div 10

ReelIdle(pc) ==
  /\ reelPc = pc
  /\ audioDuration = NoDuration
  /\ baseVideo = [name |-> "Reel_3", tenths |-> 50]
  /\ requested = 0
  /\ probeFails = FALSE
  /\ dimsProbe = "ok"
  /\ reelEnd = "none"

\* what the probe of the base video gives: a stream with width and height, an
\* error, or no stream with width and height
DimsProbes == {"ok", "fails", "noStream"}

\* the probe of the narration fails, or it answers with or without a duration;
\* the probe of the base video is made only after the narration's answered
ReelInit(pc) ==
  /\ reelPc = pc
  /\ probeFails \in BOOLEAN
  /\ audioDuration \in (IF probeFails THEN {NoDuration} ELSE Durations)
  /\ dimsProbe \in (IF probeFails THEN {"ok"} ELSE DimsProbes)
  /\ baseVideo \in BaseVideos
  /\ requested = 0
  /\ reelEnd = "none"

\* generateReel up to its second await: a rejected ffprobePromise of the
\* narration goes to the catch, which rejects; otherwise getVideoDimensions is
\* called
ReelProbe ==
  /\ reelPc = "start"
  /\ IF probeFails
     THEN reelEnd' = "rejected" /\ reelPc' = "done"
     ELSE reelEnd' = reelEnd /\ reelPc' = "dimensions"
  /\ UNCHANGED <<audioDuration, baseVideo, requested, probeFails, dimsProbe>>
  /\ UNCHANGED <<newsVars, imageVars, runVars, asmVars, cleanVars, ttsVars, upVars>>

\* generateReel from the answer of getVideoDimensions to the start of ffmpeg:
\* a failed probe of the base video, or one without a stream that has width
\* and height (stream.width of undefined throws), goes to the catch, which
\* rejects; otherwise -t ${Math.round(duration)} is asked for
ReelRequest ==
  /\ reelPc = "dimensions"
  /\ IF dimsProbe = "ok"
     THEN /\ requested' = MathRound(DurationOrDefault(audioDuration))
          /\ reelEnd' = "compositing"
     ELSE requested' = requested /\ reelEnd' = "rejected"
  /\ reelPc' = "done"
  /\ UNCHANGED <<audioDuration, baseVideo, probeFails, dimsProbe>>
  /\ UNCHANGED <<newsVars, imageVars, runVars, asmVars, cleanVars, ttsVars, upVars>>

\* ---------------------------------------------------------------- fetchTTS
\* the most bytes of a response body
MaxBytes == 3

Bodies == SeqsUpTo({"b0", "b1"}, MaxBytes)

\* what axios.get ends with: no response (a transport error or the timeout of
\* 60 s) or a response with its status and body
TTSResponses ==
  {[kind |-> k, status |-> 0, data |-> <<>>] : k \in {"transport", "timeout"}}
    \cup {[kind |-> "response", status |-> st, data |-> d] :
            st \in {200, 204, 302, 404, 500}, d \in Bodies}

\* the default validateStatus of axios
ValidateStatusAny(status) == TRUE
ValidateStatus(status) == status >= 200 /\ status < 300

\* axios.get resolves
Resolves(r) == r.kind = "response" /\ ValidateStatus(r.status)

TTSIdle(pc) ==
  /\ ttsPc = pc
  /\ ttsResponse = [kind |-> "transport", status |-> 0, data |-> <<>>]
  /\ ttsDest = [before |-> Absent, now |-> Absent]
  /\ ttsThrown = FALSE

TTSInit(pc) ==
  /\ ttsPc = pc
  /\ ttsResponse \in TTSResponses
  /\ ttsDest \in {[before |-> f, now |-> f] : f \in {Absent, OldFile}}
  /\ ttsThrown = FALSE

\* fetchTTS: the request, then writeFileSync(folderPath, res.data), or the
\* catch that logs and throws err again
FetchTTS ==
  /\ ttsPc = "start"
  /\ IF Resolves(ttsResponse)
     THEN /\ ttsDest' = [ttsDest EXCEPT !.now =
                           [exists |-> TRUE, content |-> ttsResponse.data]]
          /\ ttsThrown' = FALSE
     ELSE /\ ttsDest' = ttsDest
          /\ ttsThrown' = TRUE
  /\ ttsPc' = "done"
  /\ UNCHANGED ttsResponse
  /\ UNCHANGED <<newsVars, imageVars, runVars, asmVars, cleanVars, reelVars, upVars>>

\* ---------------------------------------------------------------- specifications
\* the uploading driver from the digest to the end of the synchronous block
\* that starts the assemblies and the upload step
Init ==
  /\ RunInit("flatten", 0) /\ NewsIdle("idle") /\ ImageIdle("idle")
  /\ CleanIdle("idle") /\ ReelIdle("idle") /\ TTSIdle("idle")
Next ==
  \/ FlattenNews \/ SegCall \/ SegTTS \/ SegImage \/ SegOverlay \/ SegReel
  \/ AssembleStart \/ UploadRead \/ EndOfTick
  \/ UpThumbnail \/ UpCode \/ UpInsert \/ UpSetThumbnail
Spec == Init /\ [][Next]_vars

\* the whole run of the uploading driver when no external operation fails
\* (the failures the environment may choose are used up from the start), with
\* every enabled step of the run eventually taken; the digest has at most one
\* item of each region, and no token or logo is stored
InitSuccess ==
  /\ RunInit("flatten", MaxFailures) /\ NewsIdle("idle") /\ ImageIdle("idle")
  /\ Len(digest.India.items) <= 1 /\ Len(digest.World.items) <= 1
  /\ ~tokenFile /\ ~logoExists
  /\ CleanIdle("idle") /\ ReelIdle("idle") /\ TTSIdle("idle")
NextSuccess ==
  \/ FlattenNews \/ SegCall \/ SegTTS \/ SegImage \/ SegOverlay \/ SegReel
  \/ AssembleStart \/ UploadRead \/ EndOfTick
  \/ UpThumbnail \/ UpCode \/ UpInsert \/ UpSetThumbnail
  \/ AssembleValidate \/ AssembleMerge
SpecSuccess == InitSuccess /\ [][NextSuccess]_vars /\ WF_vars(NextSuccess)

\* main of index_multi.js: the assemblies over an existing directory
InitAssemble ==
  /\ AssembleInit("assemble") /\ NewsIdle("idle") /\ ImageIdle("idle")
  /\ CleanIdle("idle") /\ ReelIdle("idle") /\ TTSIdle("idle")
NextAssemble == AssembleStart \/ MainReturn \/ AssembleValidate \/ AssembleMerge
SpecAssemble == InitAssemble /\ [][NextAssemble]_vars

\* getNews alone
InitNews ==
  /\ NewsInit("start") /\ ImageIdle("idle") /\ RunIdle("idle")
  /\ CleanIdle("idle") /\ ReelIdle("idle") /\ TTSIdle("idle")
NextNews == NewsStart \/ NewsAttempt
SpecNews == InitNews /\ [][NextNews]_vars

\* fetchImage alone
InitImage ==
  /\ ImageInit("start") /\ NewsIdle("idle") /\ RunIdle("idle")
  /\ CleanIdle("idle") /\ ReelIdle("idle") /\ TTSIdle("idle")
NextImage == ImageSearch \/ ImageDownload
SpecImage == InitImage /\ [][NextImage]_vars

\* cleanGeminiJSON on a JSON object text, plain and fenced
InitClean ==
  /\ CleanInit("start") /\ NewsIdle("idle") /\ ImageIdle("idle")
  /\ RunIdle("idle") /\ ReelIdle("idle") /\ TTSIdle("idle")
NextClean == CleanBoth
SpecClean == InitClean /\ [][NextClean]_vars

\* cleanGeminiJSON on any text
InitAnyText ==
  /\ AnyTextInit("start") /\ NewsIdle("idle") /\ ImageIdle("idle")
  /\ RunIdle("idle") /\ ReelIdle("idle") /\ TTSIdle("idle")
NextAnyText == CleanBoth
SpecAnyText == InitAnyText /\ [][NextAnyText]_vars

\* the output duration generateReel asks for
InitReel ==
  /\ ReelInit("start") /\ NewsIdle("idle") /\ ImageIdle("idle")
  /\ RunIdle("idle") /\ CleanIdle("idle") /\ TTSIdle("idle")
NextReel == ReelProbe \/ ReelRequest
SpecReel == InitReel /\ [][NextReel]_vars

\* fetchTTS alone
InitTTS ==
  /\ TTSInit("start") /\ NewsIdle("idle") /\ ImageIdle("idle")
  /\ RunIdle("idle") /\ CleanIdle("idle") /\ ReelIdle("idle")
NextTTS == FetchTTS
SpecTTS == InitTTS /\ [][NextTTS]_vars

\* getAllFinalVideosByDate alone
InitUpload ==
  /\ UploadInit("assembled") /\ NewsIdle("idle") /\ ImageIdle("idle")
  /\ CleanIdle("idle") /\ ReelIdle("idle") /\ TTSIdle("idle")
NextUpload ==
  \/ UploadRead \/ EndOfTick
  \/ UpThumbnail \/ UpCode \/ UpInsert \/ UpSetThumbnail
SpecUpload == InitUpload /\ [][NextUpload]_vars

\* ---------------------------------------------------------------- claims
\* the answer r is one whose cleaned text parses as JSON with India and World
\* arrays that are not both empty
IsValidAnswer(r) ==
  /\ ~r.throws
  /\ LET p == JSONParse(cleanGeminiJSON(Trim(r.text)))
     IN /\ p.ok
        /\ ~p.isNull
        /\ \/ (p.India.t = "array" /\ p.India.items # <<>>)
           \/ (p.World.t = "array" /\ p.World.items # <<>>)

\* C1 as stated: getNews returns either a digest with both region arrays
\* non-empty, or exactly {India: [], World: []}
C1_BothNonEmptyOrEmpty ==
  newsPc = "returned" =>
    /\ newsResult.root = "India,World"
    /\ \/ /\ newsResult.India.t = "array" /\ newsResult.India.items # <<>>
          /\ newsResult.World.t = "array" /\ newsResult.World.items # <<>>
       \/ newsResult = Fallback

\* C1 amended: getNews returns either a digest whose India and World are both
\* arrays and not both empty (one of them may be empty), or exactly
\* {India: [], World: []}; the uploading driver returns the non-empty digest as
\* the safeParsed member of {safeParsed, youtubeSEO}
C1_NotBothEmptyOrEmpty ==
  newsPc = "returned" =>
    \/ newsResult = Fallback
    \/ /\ newsResult.root =
            (IF variant = "multi" THEN "India,World" ELSE "safeParsed,youtubeSEO")
       /\ newsResult.India.t = "array"
       /\ newsResult.World.t = "array"
       /\ (newsResult.India.items # <<>> \/ newsResult.World.items # <<>>)

C1_Witness ==
  /\ newsPc = "returned"
  /\ variant = "multi"
  /\ newsResult.India.items # <<>>
  /\ newsResult.World = Arr(<<>>)

\* C2: the models are contacted one at a time in the order of the list, each
\* at most once, and the first valid answer ends the contacts
C2_FixedOrderStopAtFirstValid ==
  /\ Len(contacted) <= Len(models)
  /\ \A i \in 1..Len(contacted) : contacted[i] = models[i]
  /\ Len(attemptLog) = Len(contacted)
  /\ \A k \in 1..Len(attemptLog) :
       IsValidAnswer(attemptLog[k]) =>
         k = Len(attemptLog) /\ newsPc = "returned"

C2_Witness ==
  /\ newsPc = "returned"
  /\ Len(contacted) = 3
  /\ IsValidAnswer(attemptLog[3])

\* C3: while every answer fails, each failure moves to the next model, and
\* when the list is exhausted getNews returns {India: [], World: []}
C3_ExhaustionReturnsEmpty ==
  (apiKey /\ \A k \in 1..Len(attemptLog) : ~IsValidAnswer(attemptLog[k])) =>
    /\ newsPc = "loop" => attempt = Len(attemptLog) /\ attempt < Len(models)
    /\ newsPc = "returned" => contacted = models /\ newsResult = Fallback

C3_Witness ==
  /\ newsPc = "returned"
  /\ Len(attemptLog) = Len(models)
  /\ newsResult = Fallback
  /\ \E k \in 1..Len(attemptLog) : attemptLog[k].throws
  /\ \E k \in 1..Len(attemptLog) :
       ~attemptLog[k].throws
         /\ ~JSONParse(cleanGeminiJSON(Trim(attemptLog[k].text))).ok
  /\ \E k \in 1..Len(attemptLog) : attemptLog[k].text = <<"{", "I0", "W0", "}">>

\* the entry e has an image source and is not flagged as the disallowed host
Eligible(e) ==
  /\ (e.img.dataSrc # NoAttr \/ e.img.src # NoAttr)
  /\ \A i \in 1..Len(e.data) : e.data[i] \notin {"youtube", "YouTube"}

\* C5: the selected entry is the first eligible one in result order, and no
\* flagged entry is ever downloaded
C5_FirstEligibleSelected ==
  (imgPc \in {"scanned", "done"} /\ page.ok) =>
    /\ IF \E i \in 1..Len(page.entries) : Eligible(page.entries[i])
       THEN /\ firstValidImage.index \in 1..Len(page.entries)
            /\ Eligible(page.entries[firstValidImage.index])
            /\ \A j \in 1..(firstValidImage.index - 1) : ~Eligible(page.entries[j])
       ELSE firstValidImage = NoImage
    /\ \A d \in 1..Len(downloads) : downloads[d] = firstValidImage.index

C5_Witness ==
  /\ imgPc = "done"
  /\ Len(page.entries) >= 2
  /\ ~Eligible(page.entries[1])
  /\ page.entries[1].img.src # NoAttr
  /\ downloads = <<2>>

\* the loop of generateTTS has ended
LoopDone == mainPc \notin {"idle", "flatten", "loop", "caught"}

\* C4 as stated: when img{item}.png exists at a segment's illustration step,
\* fetchImage is not called for the segment and the file is not written
C4_CachedImageSkipsFetch ==
  \A k \in 1..Len(segLog) :
    segLog[k].imgExisted =>
      /\ segLog[k].image \notin {"fetched", "nothing"}
      /\ \A w \in 1..Len(writes) :
           writes[w].seg = k => writes[w].name # ImgPath(news[k])

\* C6: a segment whose narration failed gets no illustration fetch, no frame
\* and no caption compositing and writes nothing; the loop goes on to every
\* later segment and ends
C6_TTSFailureSkipsSegment ==
  /\ \A k \in 1..Len(segLog) :
       segLog[k].tts = "fail" =>
         /\ segLog[k].image = "none"
         /\ segLog[k].overlay = "none"
         /\ segLog[k].reel = "none"
         /\ \A w \in 1..Len(writes) : writes[w].seg # k
         /\ (mainPc = "loop" => segIdx > k)
  /\ LoopDone => \A k \in 1..Len(news) : segLog[k].tts # "none"

C6_Witness ==
  /\ mainPc = "assembled"
  /\ \E k \in 1..(Len(news) - 1) :
       /\ segLog[k].tts = "fail"
       /\ \A j \in (k + 1)..Len(news) : segLog[j].reel = "ok"

\* narration, illustration or compositing of segment k failed in this run
SegFailed(k) ==
  \/ segLog[k].tts = "fail"
  \/ segLog[k].image = "nothing"
  \/ segLog[k].overlay = "fail"
  \/ segLog[k].reel = "fail"

InList(list, name) == \E j \in 1..Len(list) : list[j] = name

\* C7 as stated: the clip of a segment that failed is in no concatenation
\* list, and every language's assembly is reached once the loop has ended
C7_FailedSegmentContributesNoClip ==
  /\ \A lang \in LanguageSet :
       asm[lang] # "notStarted" =>
         \A k \in 1..Len(news) :
           SegFailed(k) => ~InList(allVideos[lang], ReelPath(news[k]))
  /\ mainPc = "assembled" => \A lang \in LanguageSet : asm[lang] # "notStarted"

\* the clip of language lang with number n
ClipName(lang, n) == <<"reel_", lang>> \o Digits(n) \o <<".mp4">>

\* the numbers of the clips of language lang in the directory
ClipNumbersInDir(lang) ==
  {n \in 1..Max(10, MaxItems) : InDir(dir, ClipName(lang, n))}

\* the clips of the numbers nums, in ascending order of the number
RECURSIVE Ascending(_, _)
Ascending(lang, nums) ==
  IF nums = {} THEN <<>>
  ELSE LET least == CHOOSE n \in nums : \A m \in nums : n <= m
       IN <<ClipName(lang, least)>> \o Ascending(lang, nums \ {least})

\* C8 as stated: the list of a language is the intro, its clips in ascending
\* numeric order, the outro
C8_IntroClipsOutro ==
  \A lang \in LanguageSet :
    asm[lang] # "notStarted" =>
      allVideos[lang] =
        <<IntroPath>> \o Ascending(lang, ClipNumbersInDir(lang)) \o <<OutroPath>>

\* C8 amended: the list of a language is the intro clip if that file exists,
\* then the language's clips in strictly ascending numeric order (2 before
\* 10), then the outro clip if that file exists; no clip of another language
C8_ExistingIntroClipsOutro ==
  \A lang \in LanguageSet :
    asm[lang] # "notStarted" =>
      allVideos[lang] =
        (IF introExists THEN <<IntroPath>> ELSE <<>>)
          \o Ascending(lang, ClipNumbersInDir(lang))
          \o (IF outroExists THEN <<OutroPath>> ELSE <<>>)

C8_Witness ==
  /\ ~introExists
  /\ outroExists
  /\ asm["hindi"] # "notStarted"
  /\ InDir(dir, ClipName("english", 1))
  /\ allVideos["hindi"] = <<ClipName("hindi", 2), ClipName("hindi", 10), OutroPath>>

\* C9 as stated: the flattening yields three segments per item of three
\* languages, each with one of the language tags
C9_ThreeSegmentsPerItem ==
  mainPc # "flatten" =>
    /\ Len(news) = 3 * Len(AllNews(digest))
    /\ \A k \in 1..Len(news) : news[k].language \in LanguageSet

\* every external operation of the run succeeded
AllSucceeded ==
  /\ LoopDone
  /\ \A k \in 1..Len(news) :
       /\ segLog[k].tts = "ok"
       /\ segLog[k].image \in {"fetched", "cached"}
       /\ segLog[k].overlay = "ok"
       /\ segLog[k].reel = "ok"

\* the number of names of the directory that begin with prefix
CountFiles(prefix) == Cardinality({k \in 1..Len(dir) : dir[k][1] = prefix})

\* C10 as stated: in a run without failure no two segments write the same
\* name, and N segments leave N narration, N illustration and N clip files
C10_OwnFilesPerSegment ==
  AllSucceeded =>
    /\ \A v, w \in 1..Len(writes) :
         writes[v].name = writes[w].name => writes[v].seg = writes[w].seg
    /\ CountFiles("audio_") = Len(news)
    /\ CountFiles("img") = Len(news)
    /\ CountFiles("reel_") = Len(news)

\* C10 amended: in a run without failure every segment has its own narration
\* file, intermediate video and captioned clip, and no two segments write the
\* same narration, video or clip name; the segments of one item share the
\* illustration img{item}.png, which a segment writes only when fetchImage
\* ran for it: N segments of I items leave N narration files, I illustration
\* files and N clips
C10_OwnNarrationAndClipSharedImage ==
  AllSucceeded =>
    /\ \A v, w \in 1..Len(writes) :
         (writes[v].name = writes[w].name /\ writes[v].seg # writes[w].seg) =>
           /\ writes[v].name[1] = "img"
           /\ news[writes[v].seg].id = news[writes[w].seg].id
    /\ \A w \in 1..Len(writes) :
         writes[w].name[1] = "img" => segLog[writes[w].seg].image = "fetched"
    /\ CountFiles("audio_") = Len(news)
    /\ CountFiles("img") = Len(AllNews(digest))
    /\ CountFiles("reel_") = Len(news)

C10_Witness ==
  /\ AllSucceeded
  /\ mainPc = "assembled"
  /\ Len(news) >= 6
  /\ Len(AllNews(digest)) = 2

\* the assemblies that failed
FailedTasks == {l \in LanguageSet : asm[l] \in {"rejected", "failed"}}

\* C11 as stated: once main is past the forEach, the failure of one language's
\* assembly leaves every other language's assembly started and not cut off
C11_FailureIsolated ==
  (FailedTasks # {} /\ mainPc # "assemble") =>
    \A m \in LanguageSet : asm[m] \notin {"notStarted", "aborted"}

\* C12 as stated: when the upload step has read the directory, every
\* assembly of the run has ended, and every name it read is the final reel of
\* an assembly of the run that completed
C12_UploadReadsFinishedReels ==
  uploadList.read =>
    /\ \A l \in LanguageSet : asm[l] \in Settled
    /\ \A k \in 1..Len(uploadList.files) :
         \E l \in LanguageSet :
           /\ uploadList.files[k] = <<"final_", l, "_video.mp4">>
           /\ asm[l] = "done"

\* C13: cleanGeminiJSON gives the same string for a JSON object text in a
\* Markdown fence (with or without the json tag) as for the text itself
C13_FenceInvariant ==
  cleanPc = "done" => cleanedWrapped = cleanedPlain

C13_Witness ==
  /\ cleanPc = "done"
  /\ wrapper.open = Fence \o <<"J", "S", "O", "N">>
  /\ wrapper.sep = <<"\n">>
  /\ jsonText = <<"{", "bq", "}", "x", "}">>
  /\ cleanedWrapped = jsonText

\* seconds is the integer nearest to tenths / 10, halves going up
NearestSecond(tenths, seconds) ==
  /\ 10 * seconds <= tenths + 5
  /\ tenths + 5 < 10 * (seconds + 1)

\* C14 as stated: when ffmpeg is started the requested duration is round(D)
\* for every probed duration D, whatever the base video
C14_RequestsRoundedDuration ==
  (reelPc = "done" /\ reelEnd = "compositing" /\ audioDuration.defined) =>
    NearestSecond(audioDuration.tenths, requested)

\* C14 amended: when ffmpeg is started the requested duration is round(D) if
\* the probe reported a duration D other than 0, and 10 seconds if it reported
\* 0 or no duration, whatever the base video
C14_RequestsRoundedDurationOrTen ==
  (reelPc = "done" /\ reelEnd = "compositing") =>
    IF audioDuration.defined /\ audioDuration.tenths # 0
    THEN NearestSecond(audioDuration.tenths, requested)
    ELSE requested = 10

C14_Witness ==
  /\ reelPc = "done"
  /\ reelEnd = "compositing"
  /\ audioDuration.defined
  /\ audioDuration.tenths = 25
  /\ baseVideo.tenths = 300
  /\ requested = 3

\* C15: whatever validation found, the concatenation gets every input clip in
\* input order, n is the number of inputs and one video and one audio output
\* stream are asked for
C15_MergeTakesEveryInput ==
  \A l \in LanguageSet :
    asm[l] \in {"merging", "done"} =>
      /\ merge[l].inputs = allVideos[l]
      /\ merge[l].n = Len(allVideos[l])
      /\ merge[l].v = 1
      /\ merge[l].a = 1

C15_Witness ==
  \E l \in LanguageSet :
    /\ asm[l] = "merging"
    /\ Len(allVideos[l]) >= 3
    /\ broken[l] = <<allVideos[l][1]>>

\* no entry of the page has an image source without being flagged
NoEligibleEntry ==
  page.ok /\ \A i \in 1..Len(page.entries) : ~Eligible(page.entries[i])

\* C16: when no entry is eligible fetchImage ends without requesting an
\* image and without creating or changing the destination file
C16_NoEligibleNoWrite ==
  /\ [](NoEligibleEntry => (downloads = <<>> /\ imgPc # "scanned"))
  /\ [][NoEligibleEntry => destFile' = destFile]_vars

C16_Witness ==
  /\ imgPc = "done"
  /\ NoEligibleEntry
  /\ Len(page.entries) >= 2
  /\ page.entries[1].img.src # NoAttr
  /\ page.entries[2].img = [dataSrc |-> NoAttr, src |-> NoAttr]
  /\ destFile = OldFile

\* the request ended with a response of a 2xx status
Success(r) == r.kind = "response" /\ r.status \in 200..299

\* C17: fetchTTS writes the destination only after a successful response and
\* with exactly its bytes; otherwise the destination is as before and the
\* error goes to the caller
C17_WriteOnlyOnSuccess ==
  /\ ttsPc = "start" => ttsDest.now = ttsDest.before
  /\ ttsPc = "done" =>
       IF Success(ttsResponse)
       THEN /\ ttsDest.now = [exists |-> TRUE, content |-> ttsResponse.data]
            /\ ~ttsThrown
       ELSE /\ ttsDest.now = ttsDest.before
            /\ ttsThrown

C17_Witness ==
  /\ ttsPc = "done"
  /\ ttsResponse.kind = "response"
  /\ ttsResponse.status = 404
  /\ ttsResponse.data # <<>>
  /\ ttsDest.now = OldFile
  /\ ttsThrown

\* the names segment k wrote
WritesOf(k) == {w \in 1..Len(writes) : writes[w].seg = k}

\* the loop has ended with every segment processed once, and the directory
\* holds one final reel per language, three in all
RunFinished ==
  /\ LoopDone
  /\ \A k \in 1..Len(news) :
       /\ segLog[k].reel = "ok"
       /\ Cardinality(WritesOf(k)) = 4
       /\ \A v, w \in WritesOf(k) : writes[v].name = writes[w].name => v = w
  /\ \A l \in LanguageSet : asm[l] = "done"
  /\ \A l \in LanguageSet : InDir(dir, <<"final_", l, "_video.mp4">>)
  /\ Cardinality({k \in 1..Len(dir) : dir[k][1] = "final_"}) = 3

SomethingToAssemble == digest # EmptyDigest \/ introExists \/ outroExists

C19_OverlayFailureSkipsReel ==
  /\ \A k \in 1..Len(segLog) :
       segLog[k].overlay = "fail" => segLog[k].reel = "none"
  /\ \A v, w \in 1..Len(writes) : writes[v] = writes[w] => v = w

\* every language before position k of the forEach has been started
StartedBefore(k) == \A j \in 1..(k - 1) : asm[Languages[j]] # "notStarted"

\* C20 as stated: the assemblies start in the order gujarati, hindi, english,
\* none has ended before all three are started, and none has ended when main
\* goes on after the forEach
C20_AllStartedBeforeAnyEnds ==
  /\ \A k \in 1..Len(Languages) :
       asm[Languages[k]] # "notStarted" => StartedBefore(k)
  /\ (\E l \in LanguageSet : asm[l] \in Settled) =>
       \A m \in LanguageSet : asm[m] # "notStarted"
  /\ mainPc = "assembled" => \A l \in LanguageSet : asm[l] \notin Settled

\* C20 amended: the assemblies start in the order gujarati, hindi, english;
\* an assembly whose list is empty fails at once, and no assembly that has a
\* list has ended its probes or its concatenation before all three are
\* started and main has gone on after the forEach
C20_AllStartedBeforeAnyMergeEnds ==
  /\ \A k \in 1..Len(Languages) :
       asm[Languages[k]] # "notStarted" => StartedBefore(k)
  /\ (\E l \in LanguageSet : asm[l] \in {"merging", "done", "failed", "aborted"}) =>
       /\ \A m \in LanguageSet : asm[m] # "notStarted"
       /\ mainPc \notin {"assemble", "assembled"}
  /\ mainPc = "assembled" =>
       \A l \in LanguageSet : asm[l] \in {"validating", "rejected"}

C20_Witness ==
  /\ mainPc = "returned"
  /\ \A l \in LanguageSet : asm[l] = "validating"

\* segment k was derived from an item of the India array of the digest
FromIndia(k) == news[k].id < Len(digest.India.items)

\* C21 as stated: a segment of an India item is composited onto Reel_3 and a
\* segment of a World item onto Reel_4
C21_BaseTrackFollowsRegion ==
  \A k \in 1..Len(segLog) :
    segLog[k].base # "none" =>
      segLog[k].base = IF FromIndia(k) THEN "Reel_3" ELSE "Reel_4"

\* the positions of the first { and of the last } of the text t (0 if absent)
FirstOpen(t) ==
  IF \E i \in 1..Len(t) : t[i] = "{"
  THEN CHOOSE i \in 1..Len(t) : t[i] = "{" /\ \A j \in 1..(i - 1) : t[j] # "{"
  ELSE 0
LastClose(t) ==
  IF \E i \in 1..Len(t) : t[i] = "}"
  THEN CHOOSE i \in 1..Len(t) : t[i] = "}" /\ \A j \in (i + 1)..Len(t) : t[j] # "}"
  ELSE 0

\* the result is the text from its first { to its last }
CutToBraces ==
  /\ cleanedPlain # <<>>
  /\ cleanedPlain[1] = "{"
  /\ cleanedPlain[Len(cleanedPlain)] = "}"
  /\ cleanedPlain = SubSeq(jsonText, FirstOpen(jsonText), LastClose(jsonText))

\* C22 as stated: for a text that holds both a { and a }, the result begins
\* with {, ends with } and is the text from the first { to the last }
C22_CutToOutermostBraces ==
  (cleanPc = "done" /\ FirstOpen(jsonText) # 0 /\ LastClose(jsonText) # 0) =>
    CutToBraces

\* C22 amended: the same for a text whose first { comes before its last }
C22_CutWhenOpenPrecedesClose ==
  (cleanPc = "done" /\ FirstOpen(jsonText) # 0
     /\ FirstOpen(jsonText) < LastClose(jsonText)) =>
    CutToBraces

C22_Witness ==
  /\ cleanPc = "done"
  /\ jsonText = <<"x", "{", "}", "}">>
  /\ cleanedPlain = <<"{", "}", "}">>

\* C23 as stated: when the probe of the narration fails or reports no
\* duration, generateReel asks for the default of 10 seconds and starts the
\* caption compositing
C23_UnprobedDurationFallsBack ==
  (reelPc = "done" /\ (probeFails \/ ~audioDuration.defined)) =>
    /\ requested = 10
    /\ reelEnd = "compositing"

\* a segment one of whose operations was called or has ended
Started(k) == segLog[k] # NoLog \/ \E r \in running : r.seg = k

\* C24: during the item loop at most one operation is in flight, it belongs to
\* a segment of the loop, and while it is in flight no operation of a later
\* segment has started
C24_OneSegmentAtATime ==
  /\ Cardinality(running) <= 1
  /\ \A r \in running :
       /\ mainPc = "loop"
       /\ \A k \in (r.seg + 1)..Len(news) : ~Started(k)

C24_Witness ==
  /\ running = {Call(2, "reel")}
  /\ segLog[1].reel = "ok"
  /\ segLog[2].overlay = "ok"

\* C25 as stated: the exit status is non-zero only when the catch of main set
\* it, whatever failed in the item loop
C25_ExitStatusOnlyFromCatch ==
  exitCode.code # 0 => exitCode.by = "catch"

\* C27: when the assembly of a language failed (empty list, probe failure or
\* concatenation error), main is not in its catch and the catch has not set
\* the exit status
C27_CallbackFailureNotCaught ==
  FailedTasks # {} =>
    /\ mainPc # "caught"
    /\ exitCode.by # "catch"

C27_Witness ==
  /\ mainPc = "returned"
  /\ \E l, m \in LanguageSet : asm[l] = "rejected" /\ asm[m] = "failed"
  /\ exitCode = NoExit

\* the directory holds a captioned clip of the language
HasClips(l) == \E k \in 1..Len(dir) : ReelMatch(dir[k], l)

\* the intro and the outro that exist, in the order of the list
AssetsOnly ==
  (IF introExists THEN <<IntroPath>> ELSE <<>>)
    \o (IF outroExists THEN <<OutroPath>> ELSE <<>>)

\* C29: the callback of a language throws 'No videos to merge' exactly when
\* the intro, the outro and every clip of the language are absent; a language
\* without clips whose intro or outro exists goes on with those inputs only
C29_AbortOnlyWhenNothingExists ==
  \A l \in LanguageSet :
    asm[l] # "notStarted" =>
      /\ asm[l] = "rejected" <=>
           (~introExists /\ ~outroExists /\ ~HasClips(l))
      /\ (~HasClips(l) /\ asm[l] # "rejected") =>
           /\ allVideos[l] = AssetsOnly
           /\ asm[l] \in {"merging", "done"} => merge[l].inputs = AssetsOnly

C29_Witness ==
  \E l, m \in LanguageSet :
    /\ ~HasClips(l)
    /\ asm[l] = "done"
    /\ allVideos[l] = <<IntroPath, OutroPath>>
    /\ HasClips(m)

\* C28: until the upload step has listed the directory no step changes the
\* final_ files the directory holds and no assembly has reached its
\* concatenation, and the step lists exactly those files: the list is what an
\* earlier run left, and with nothing left the upload step uploads nothing
C28_UploadListsBeforeAssemblyWrites ==
  [][~uploadList.read =>
       /\ \A l \in LanguageSet : asm[l] \notin {"merging", "done"}
       /\ FinalVideos(dir') = FinalVideos(dir)
       /\ uploadList'.read =>
            /\ uploadList'.files = FinalVideos(dir)
            /\ FinalVideos(dir) = <<>> =>
                 upTask' = <<>> /\ upResult'.settled]_vars

C28_Witness ==
  /\ uploadList = [read |-> TRUE, files |-> <<>>]
  /\ mainPc = "returned"
  /\ \A l \in LanguageSet : asm[l] = "done" /\ InDir(dir, FinalPath(l))

\* C26 as stated: in one upload run the interactive authorization flow is
\* started at most once
C26_OneInteractiveFlow ==
  authFlows <= 1

\* C30: every listed video has its own task, no task ends rejected, and what
\* getAllFinalVideosByDate returns has one fulfilled entry per video whose
\* status, success or failed, is that of the video's own task; a missing
\* folder or a folder without final_ video gives an empty list, no task and no
\* authorization
C30_PerVideoFailureIsolated ==
  /\ uploadList.read => Len(upTask) = Len(Listed(dir))
  /\ \A i \in 1..Len(upTask) : upTask[i] # "rejected"
  /\ upResult.settled =>
       /\ Len(upResult.entries) = Len(Listed(dir))
       /\ \A k \in 1..Len(upResult.entries) :
            /\ upResult.entries[k].outcome = "fulfilled"
            /\ upResult.entries[k].status \in {"success", "failed"}
            /\ upResult.entries[k].status = upTask[k]
  /\ (uploadList.read /\ (~folderExists \/ FinalVideos(dir) = <<>>)) =>
       /\ upResult = [settled |-> TRUE, entries |-> <<>>]
       /\ upTask = <<>>
       /\ authFlows = 0

C30_Witness ==
  /\ upResult.settled
  /\ Len(upResult.entries) = 2
  /\ upResult.entries[1].status = "failed"
  /\ upResult.entries[2].status = "success"

====
